---- MODULE Spec2Model ----
(***************************************************************************)
(* A model of web/bib2html.py: loading a bibliography with crossref        *)
(* inheritance, name formatting, venue rendering and the assembly of the   *)
(* year-organised HTML bibliography.                                       *)
(*                                                                         *)
(* A string is the sequence of its characters. A printable ASCII character *)
(* other than the grave accent is the one-character string ("a", " ");     *)
(* tab, newline, form feed and carriage return are "\t", "\n", "\f" and     *)
(* "\r"; any other character is "U+" and its code point in at least four   *)
(* upper-case hexadecimal digits ("U+2013" for the en dash): chr(n) gives  *)
(* the character of a code point.                                          *)
(* An entry is a function from field names to strings (a Python dict);     *)
(* an absent field is a name outside its DOMAIN.                           *)
(***************************************************************************)
EXTENDS Integers, Sequences, FiniteSets, TLC

VARIABLES
    parsed,         \* load_bibliography: the entry dicts built from the parse
    entries,        \* the list load_bibliography returned (render's argument)
    pc,             \* where the program is: "start", "loaded", "rendered", ...
    author_filter,  \* render_bibliography: the author_filter of the last call
    out,            \* render_bibliography: what the last call computed
    first_out,      \* the output of the first call made with each filter
    names,          \* the names a name string was written from
    name_str,       \* _format_name_list: its argument
    formatted,      \* _format_name_list: its result
    ventry,         \* _venue_html: its argument
    venue           \* _venue_html: its result

vars == <<parsed, entries, pc, author_filter, out, first_out,
          names, name_str, formatted, ventry, venue>>

\* The value of a variable that holds nothing yet (Python's None): a string
\* of one token that no text holds.
None == <<"None">>

-----------------------------------------------------------------------------
(* Bounds of the model *)

\* The longest list of entries loaded or rendered.
MaxEntries == 3

\* The most names written into one author or editor string.
MaxNames == 4

-----------------------------------------------------------------------------
(* Python's str operations, on token sequences *)

\* The printable ASCII characters, ' ' (32) to '~' (126), in their order;
\* the grave accent (96) is written by its code point.
Printable ==
    << " ", "!", "\"", "#", "$", "%", "&", "'", "(", ")", "*", "+", ",", "-", ".", "/", "0", "1", "2", "3",
      "4", "5", "6", "7", "8", "9", ":", ";", "<", "=", ">", "?", "@", "A", "B", "C", "D", "E", "F", "G",
      "H", "I", "J", "K", "L", "M", "N", "O", "P", "Q", "R", "S", "T", "U", "V", "W", "X", "Y", "Z", "[",
      "\\", "]", "^", "_", "U+0060", "a", "b", "c", "d", "e", "f", "g", "h", "i", "j", "k", "l", "m", "n", "o",
      "p", "q", "r", "s", "t", "u", "v", "w", "x", "y", "z", "{", "|", "}", "~" >>

HexDigits ==
    <<"0", "1", "2", "3", "4", "5", "6", "7", "8", "9", "A", "B", "C", "D", "E", "F">>

\* format(n, 'X')
RECURSIVE hex(_)
hex(n) == IF n < 16 THEN HexDigits[n + 1] ELSE hex(n \div 16) \o HexDigits[(n % 16) + 1]

\* chr(n): the character of code point n.
chr(n) ==
    IF n \in 32..126 THEN Printable[n - 31]
    ELSE IF n = 9 THEN "\t"
    ELSE IF n = 10 THEN "\n"
    ELSE IF n = 12 THEN "\f"
    ELSE IF n = 13 THEN "\r"
    ELSE "U+" \o (IF n < 16 THEN "000" ELSE IF n < 256 THEN "00" ELSE IF n < 4096 THEN "0" ELSE "")
              \o hex(n)

\* The characters of the code points of a set of ranges <<first, last>>.
chars_of(ranges) == {chr(n) : n \in UNION {r[1]..r[2] : r \in ranges}}

\* What str.strip() strips and the class \s of a str pattern matches: the
\* characters str.isspace() holds of.
Whitespace ==
    { "\t", "\n", "U+000B", "\f", "\r", "U+001C", "U+001D", "U+001E", "U+001F", " ", "U+0085",
      "U+00A0", "U+1680", "U+2000", "U+2001", "U+2002", "U+2003", "U+2004", "U+2005", "U+2006",
      "U+2007", "U+2008", "U+2009", "U+200A", "U+2028", "U+2029", "U+202F", "U+205F", "U+3000" }

\* The code points of the digit zero of every script: str.isdecimal() holds
\* of a zero and of the nine characters after it, the digits 1 to 9.
DecimalZeros ==
    { 48, 1632, 1776, 1984, 2406, 2534, 2662, 2790, 2918, 3046, 3174, 3302, 3430, 3558, 3664, 3792, 3872,
      4160, 4240, 6112, 6160, 6470, 6608, 6784, 6800, 6992, 7088, 7232, 7248, 42528, 43216, 43264, 43472,
      43504, 43600, 44016, 65296, 66720, 68912, 69734, 69872, 69942, 70096, 70384, 70736, 70864, 71248,
      71360, 71472, 71904, 72016, 72784, 73040, 73120, 92768, 92864, 93008, 120782, 120792, 120802, 120812,
      120822, 123200, 123632, 125264, 130032 }

DecimalPairs == {<<chr(z + v), v>> : z \in DecimalZeros, v \in 0..9}

\* The value of a decimal digit.
DigitValue ==
    [c \in {p[1] : p \in DecimalPairs} |-> (CHOOSE p \in DecimalPairs : p[1] = c)[2]]

\* The code points of the digits that have no decimal value (superscripts,
\* circled digits, ...): str.isdigit() holds of them, int() does not read them.
OtherDigitRanges ==
    { <<178, 179>>, <<185, 185>>, <<4969, 4977>>, <<6618, 6618>>, <<8304, 8304>>, <<8308, 8313>>,
      <<8320, 8329>>, <<9312, 9320>>, <<9332, 9340>>, <<9352, 9360>>, <<9450, 9450>>, <<9461, 9469>>,
      <<9471, 9471>>, <<10102, 10110>>, <<10112, 10120>>, <<10122, 10130>>, <<68160, 68163>>,
      <<69216, 69224>>, <<69714, 69722>>, <<127232, 127242>> }

\* The characters str.isdigit() holds of.
Digits == DOMAIN DigitValue \cup chars_of(OtherDigitRanges)

\* str.lower() of one character, as rules <<first, last, step, delta>>: the
\* code points first, first + step, ..., last each become the code point
\* delta further on.
LowerRules ==
    { <<65, 90, 1, 32>>, <<192, 214, 1, 32>>, <<216, 222, 1, 32>>, <<256, 302, 2, 1>>, <<306, 310, 2, 1>>,
      <<313, 327, 2, 1>>, <<330, 374, 2, 1>>, <<376, 376, 1, -121>>, <<377, 381, 2, 1>>,
      <<385, 385, 1, 210>>, <<386, 388, 2, 1>>, <<390, 390, 1, 206>>, <<391, 391, 1, 1>>,
      <<393, 394, 1, 205>>, <<395, 395, 1, 1>>, <<398, 398, 1, 79>>, <<399, 399, 1, 202>>,
      <<400, 400, 1, 203>>, <<401, 401, 1, 1>>, <<403, 403, 1, 205>>, <<404, 404, 1, 207>>,
      <<406, 406, 1, 211>>, <<407, 407, 1, 209>>, <<408, 408, 1, 1>>, <<412, 412, 1, 211>>,
      <<413, 413, 1, 213>>, <<415, 415, 1, 214>>, <<416, 420, 2, 1>>, <<422, 422, 1, 218>>,
      <<423, 423, 1, 1>>, <<425, 425, 1, 218>>, <<428, 428, 1, 1>>, <<430, 430, 1, 218>>, <<431, 431, 1, 1>>,
      <<433, 434, 1, 217>>, <<435, 437, 2, 1>>, <<439, 439, 1, 219>>, <<440, 440, 1, 1>>, <<444, 444, 1, 1>>,
      <<452, 452, 1, 2>>, <<453, 453, 1, 1>>, <<455, 455, 1, 2>>, <<456, 456, 1, 1>>, <<458, 458, 1, 2>>,
      <<459, 475, 2, 1>>, <<478, 494, 2, 1>>, <<497, 497, 1, 2>>, <<498, 500, 2, 1>>, <<502, 502, 1, -97>>,
      <<503, 503, 1, -56>>, <<504, 542, 2, 1>>, <<544, 544, 1, -130>>, <<546, 562, 2, 1>>,
      <<570, 570, 1, 10795>>, <<571, 571, 1, 1>>, <<573, 573, 1, -163>>, <<574, 574, 1, 10792>>,
      <<577, 577, 1, 1>>, <<579, 579, 1, -195>>, <<580, 580, 1, 69>>, <<581, 581, 1, 71>>,
      <<582, 590, 2, 1>>, <<880, 882, 2, 1>>, <<886, 886, 1, 1>>, <<895, 895, 1, 116>>, <<902, 902, 1, 38>>,
      <<904, 906, 1, 37>>, <<908, 908, 1, 64>>, <<910, 911, 1, 63>>, <<913, 929, 1, 32>>,
      <<931, 939, 1, 32>>, <<975, 975, 1, 8>>, <<984, 1006, 2, 1>>, <<1012, 1012, 1, -60>>,
      <<1015, 1015, 1, 1>>, <<1017, 1017, 1, -7>>, <<1018, 1018, 1, 1>>, <<1021, 1023, 1, -130>>,
      <<1024, 1039, 1, 80>>, <<1040, 1071, 1, 32>>, <<1120, 1152, 2, 1>>, <<1162, 1214, 2, 1>>,
      <<1216, 1216, 1, 15>>, <<1217, 1229, 2, 1>>, <<1232, 1326, 2, 1>>, <<1329, 1366, 1, 48>>,
      <<4256, 4293, 1, 7264>>, <<4295, 4295, 1, 7264>>, <<4301, 4301, 1, 7264>>, <<5024, 5103, 1, 38864>>,
      <<5104, 5109, 1, 8>>, <<7312, 7354, 1, -3008>>, <<7357, 7359, 1, -3008>>, <<7680, 7828, 2, 1>>,
      <<7838, 7838, 1, -7615>>, <<7840, 7934, 2, 1>>, <<7944, 7951, 1, -8>>, <<7960, 7965, 1, -8>>,
      <<7976, 7983, 1, -8>>, <<7992, 7999, 1, -8>>, <<8008, 8013, 1, -8>>, <<8025, 8031, 2, -8>>,
      <<8040, 8047, 1, -8>>, <<8072, 8079, 1, -8>>, <<8088, 8095, 1, -8>>, <<8104, 8111, 1, -8>>,
      <<8120, 8121, 1, -8>>, <<8122, 8123, 1, -74>>, <<8124, 8124, 1, -9>>, <<8136, 8139, 1, -86>>,
      <<8140, 8140, 1, -9>>, <<8152, 8153, 1, -8>>, <<8154, 8155, 1, -100>>, <<8168, 8169, 1, -8>>,
      <<8170, 8171, 1, -112>>, <<8172, 8172, 1, -7>>, <<8184, 8185, 1, -128>>, <<8186, 8187, 1, -126>>,
      <<8188, 8188, 1, -9>>, <<8486, 8486, 1, -7517>>, <<8490, 8490, 1, -8383>>, <<8491, 8491, 1, -8262>>,
      <<8498, 8498, 1, 28>>, <<8544, 8559, 1, 16>>, <<8579, 8579, 1, 1>>, <<9398, 9423, 1, 26>>,
      <<11264, 11311, 1, 48>>, <<11360, 11360, 1, 1>>, <<11362, 11362, 1, -10743>>,
      <<11363, 11363, 1, -3814>>, <<11364, 11364, 1, -10727>>, <<11367, 11371, 2, 1>>,
      <<11373, 11373, 1, -10780>>, <<11374, 11374, 1, -10749>>, <<11375, 11375, 1, -10783>>,
      <<11376, 11376, 1, -10782>>, <<11378, 11378, 1, 1>>, <<11381, 11381, 1, 1>>,
      <<11390, 11391, 1, -10815>>, <<11392, 11490, 2, 1>>, <<11499, 11501, 2, 1>>, <<11506, 11506, 1, 1>>,
      <<42560, 42604, 2, 1>>, <<42624, 42650, 2, 1>>, <<42786, 42798, 2, 1>>, <<42802, 42862, 2, 1>>,
      <<42873, 42875, 2, 1>>, <<42877, 42877, 1, -35332>>, <<42878, 42886, 2, 1>>, <<42891, 42891, 1, 1>>,
      <<42893, 42893, 1, -42280>>, <<42896, 42898, 2, 1>>, <<42902, 42920, 2, 1>>,
      <<42922, 42922, 1, -42308>>, <<42923, 42923, 1, -42319>>, <<42924, 42924, 1, -42315>>,
      <<42925, 42925, 1, -42305>>, <<42926, 42926, 1, -42308>>, <<42928, 42928, 1, -42258>>,
      <<42929, 42929, 1, -42282>>, <<42930, 42930, 1, -42261>>, <<42931, 42931, 1, 928>>,
      <<42932, 42946, 2, 1>>, <<42948, 42948, 1, -48>>, <<42949, 42949, 1, -42307>>,
      <<42950, 42950, 1, -35384>>, <<42951, 42953, 2, 1>>, <<42960, 42960, 1, 1>>, <<42966, 42968, 2, 1>>,
      <<42997, 42997, 1, 1>>, <<65313, 65338, 1, 32>>, <<66560, 66599, 1, 40>>, <<66736, 66771, 1, 40>>,
      <<66928, 66964, 2, 39>>, <<66929, 66937, 2, 39>>, <<66941, 66953, 2, 39>>, <<66957, 66961, 2, 39>>,
      <<66965, 66965, 1, 39>>, <<68736, 68786, 1, 64>>, <<71840, 71871, 1, 32>>, <<93760, 93791, 1, 32>>,
      <<125184, 125217, 1, 34>> }

LowerPairs ==
    UNION {{<<chr(n), chr(n + r[4])>> : n \in {m \in r[1]..r[2] : (m - r[1]) % r[3] = 0}} :
              r \in LowerRules}

LowerOf ==
    [c \in {p[1] : p \in LowerPairs} |-> (CHOOSE p \in LowerPairs : p[1] = c)[2]]

\* The code points of the case-ignorable characters.
CaseIgnorableRanges ==
    { <<39, 39>>, <<46, 46>>, <<58, 58>>, <<94, 94>>, <<96, 96>>, <<168, 168>>, <<173, 173>>, <<175, 175>>,
      <<180, 180>>, <<183, 184>>, <<688, 879>>, <<884, 885>>, <<890, 890>>, <<900, 901>>, <<903, 903>>,
      <<1155, 1161>>, <<1369, 1369>>, <<1375, 1375>>, <<1425, 1469>>, <<1471, 1471>>, <<1473, 1474>>,
      <<1476, 1477>>, <<1479, 1479>>, <<1524, 1524>>, <<1536, 1541>>, <<1552, 1562>>, <<1564, 1564>>,
      <<1600, 1600>>, <<1611, 1631>>, <<1648, 1648>>, <<1750, 1757>>, <<1759, 1768>>, <<1770, 1773>>,
      <<1807, 1807>>, <<1809, 1809>>, <<1840, 1866>>, <<1958, 1968>>, <<2027, 2037>>, <<2042, 2042>>,
      <<2045, 2045>>, <<2070, 2093>>, <<2137, 2139>>, <<2184, 2184>>, <<2192, 2193>>, <<2200, 2207>>,
      <<2249, 2306>>, <<2362, 2362>>, <<2364, 2364>>, <<2369, 2376>>, <<2381, 2381>>, <<2385, 2391>>,
      <<2402, 2403>>, <<2417, 2417>>, <<2433, 2433>>, <<2492, 2492>>, <<2497, 2500>>, <<2509, 2509>>,
      <<2530, 2531>>, <<2558, 2558>>, <<2561, 2562>>, <<2620, 2620>>, <<2625, 2626>>, <<2631, 2632>>,
      <<2635, 2637>>, <<2641, 2641>>, <<2672, 2673>>, <<2677, 2677>>, <<2689, 2690>>, <<2748, 2748>>,
      <<2753, 2757>>, <<2759, 2760>>, <<2765, 2765>>, <<2786, 2787>>, <<2810, 2815>>, <<2817, 2817>>,
      <<2876, 2876>>, <<2879, 2879>>, <<2881, 2884>>, <<2893, 2893>>, <<2901, 2902>>, <<2914, 2915>>,
      <<2946, 2946>>, <<3008, 3008>>, <<3021, 3021>>, <<3072, 3072>>, <<3076, 3076>>, <<3132, 3132>>,
      <<3134, 3136>>, <<3142, 3144>>, <<3146, 3149>>, <<3157, 3158>>, <<3170, 3171>>, <<3201, 3201>>,
      <<3260, 3260>>, <<3263, 3263>>, <<3270, 3270>>, <<3276, 3277>>, <<3298, 3299>>, <<3328, 3329>>,
      <<3387, 3388>>, <<3393, 3396>>, <<3405, 3405>>, <<3426, 3427>>, <<3457, 3457>>, <<3530, 3530>>,
      <<3538, 3540>>, <<3542, 3542>>, <<3633, 3633>>, <<3636, 3642>>, <<3654, 3662>>, <<3761, 3761>>,
      <<3764, 3772>>, <<3782, 3782>>, <<3784, 3789>>, <<3864, 3865>>, <<3893, 3893>>, <<3895, 3895>>,
      <<3897, 3897>>, <<3953, 3966>>, <<3968, 3972>>, <<3974, 3975>>, <<3981, 3991>>, <<3993, 4028>>,
      <<4038, 4038>>, <<4141, 4144>>, <<4146, 4151>>, <<4153, 4154>>, <<4157, 4158>>, <<4184, 4185>>,
      <<4190, 4192>>, <<4209, 4212>>, <<4226, 4226>>, <<4229, 4230>>, <<4237, 4237>>, <<4253, 4253>>,
      <<4348, 4348>>, <<4957, 4959>>, <<5906, 5908>>, <<5938, 5939>>, <<5970, 5971>>, <<6002, 6003>>,
      <<6068, 6069>>, <<6071, 6077>>, <<6086, 6086>>, <<6089, 6099>>, <<6103, 6103>>, <<6109, 6109>>,
      <<6155, 6159>>, <<6211, 6211>>, <<6277, 6278>>, <<6313, 6313>>, <<6432, 6434>>, <<6439, 6440>>,
      <<6450, 6450>>, <<6457, 6459>>, <<6679, 6680>>, <<6683, 6683>>, <<6742, 6742>>, <<6744, 6750>>,
      <<6752, 6752>>, <<6754, 6754>>, <<6757, 6764>>, <<6771, 6780>>, <<6783, 6783>>, <<6823, 6823>>,
      <<6832, 6862>>, <<6912, 6915>>, <<6964, 6964>>, <<6966, 6970>>, <<6972, 6972>>, <<6978, 6978>>,
      <<7019, 7027>>, <<7040, 7041>>, <<7074, 7077>>, <<7080, 7081>>, <<7083, 7085>>, <<7142, 7142>>,
      <<7144, 7145>>, <<7149, 7149>>, <<7151, 7153>>, <<7212, 7219>>, <<7222, 7223>>, <<7288, 7293>>,
      <<7376, 7378>>, <<7380, 7392>>, <<7394, 7400>>, <<7405, 7405>>, <<7412, 7412>>, <<7416, 7417>>,
      <<7468, 7530>>, <<7544, 7544>>, <<7579, 7679>>, <<8125, 8125>>, <<8127, 8129>>, <<8141, 8143>>,
      <<8157, 8159>>, <<8173, 8175>>, <<8189, 8190>>, <<8203, 8207>>, <<8216, 8217>>, <<8228, 8228>>,
      <<8231, 8231>>, <<8234, 8238>>, <<8288, 8292>>, <<8294, 8303>>, <<8305, 8305>>, <<8319, 8319>>,
      <<8336, 8348>>, <<8400, 8432>>, <<11388, 11389>>, <<11503, 11505>>, <<11631, 11631>>, <<11647, 11647>>,
      <<11744, 11775>>, <<11823, 11823>>, <<12293, 12293>>, <<12330, 12333>>, <<12337, 12341>>,
      <<12347, 12347>>, <<12441, 12446>>, <<12540, 12542>>, <<40981, 40981>>, <<42232, 42237>>,
      <<42508, 42508>>, <<42607, 42610>>, <<42612, 42621>>, <<42623, 42623>>, <<42652, 42655>>,
      <<42736, 42737>>, <<42752, 42785>>, <<42864, 42864>>, <<42888, 42890>>, <<42994, 42996>>,
      <<43000, 43001>>, <<43010, 43010>>, <<43014, 43014>>, <<43019, 43019>>, <<43045, 43046>>,
      <<43052, 43052>>, <<43204, 43205>>, <<43232, 43249>>, <<43263, 43263>>, <<43302, 43309>>,
      <<43335, 43345>>, <<43392, 43394>>, <<43443, 43443>>, <<43446, 43449>>, <<43452, 43453>>,
      <<43471, 43471>>, <<43493, 43494>>, <<43561, 43566>>, <<43569, 43570>>, <<43573, 43574>>,
      <<43587, 43587>>, <<43596, 43596>>, <<43632, 43632>>, <<43644, 43644>>, <<43696, 43696>>,
      <<43698, 43700>>, <<43703, 43704>>, <<43710, 43711>>, <<43713, 43713>>, <<43741, 43741>>,
      <<43756, 43757>>, <<43763, 43764>>, <<43766, 43766>>, <<43867, 43871>>, <<43881, 43883>>,
      <<44005, 44005>>, <<44008, 44008>>, <<44013, 44013>>, <<64286, 64286>>, <<64434, 64450>>,
      <<65024, 65039>>, <<65043, 65043>>, <<65056, 65071>>, <<65106, 65106>>, <<65109, 65109>>,
      <<65279, 65279>>, <<65287, 65287>>, <<65294, 65294>>, <<65306, 65306>>, <<65342, 65342>>,
      <<65344, 65344>>, <<65392, 65392>>, <<65438, 65439>>, <<65507, 65507>>, <<65529, 65531>>,
      <<66045, 66045>>, <<66272, 66272>>, <<66422, 66426>>, <<67456, 67461>>, <<67463, 67504>>,
      <<67506, 67514>>, <<68097, 68099>>, <<68101, 68102>>, <<68108, 68111>>, <<68152, 68154>>,
      <<68159, 68159>>, <<68325, 68326>>, <<68900, 68903>>, <<69291, 69292>>, <<69446, 69456>>,
      <<69506, 69509>>, <<69633, 69633>>, <<69688, 69702>>, <<69744, 69744>>, <<69747, 69748>>,
      <<69759, 69761>>, <<69811, 69814>>, <<69817, 69818>>, <<69821, 69821>>, <<69826, 69826>>,
      <<69837, 69837>>, <<69888, 69890>>, <<69927, 69931>>, <<69933, 69940>>, <<70003, 70003>>,
      <<70016, 70017>>, <<70070, 70078>>, <<70089, 70092>>, <<70095, 70095>>, <<70191, 70193>>,
      <<70196, 70196>>, <<70198, 70199>>, <<70206, 70206>>, <<70367, 70367>>, <<70371, 70378>>,
      <<70400, 70401>>, <<70459, 70460>>, <<70464, 70464>>, <<70502, 70508>>, <<70512, 70516>>,
      <<70712, 70719>>, <<70722, 70724>>, <<70726, 70726>>, <<70750, 70750>>, <<70835, 70840>>,
      <<70842, 70842>>, <<70847, 70848>>, <<70850, 70851>>, <<71090, 71093>>, <<71100, 71101>>,
      <<71103, 71104>>, <<71132, 71133>>, <<71219, 71226>>, <<71229, 71229>>, <<71231, 71232>>,
      <<71339, 71339>>, <<71341, 71341>>, <<71344, 71349>>, <<71351, 71351>>, <<71453, 71455>>,
      <<71458, 71461>>, <<71463, 71467>>, <<71727, 71735>>, <<71737, 71738>>, <<71995, 71996>>,
      <<71998, 71998>>, <<72003, 72003>>, <<72148, 72151>>, <<72154, 72155>>, <<72160, 72160>>,
      <<72193, 72202>>, <<72243, 72248>>, <<72251, 72254>>, <<72263, 72263>>, <<72273, 72278>>,
      <<72281, 72283>>, <<72330, 72342>>, <<72344, 72345>>, <<72752, 72758>>, <<72760, 72765>>,
      <<72767, 72767>>, <<72850, 72871>>, <<72874, 72880>>, <<72882, 72883>>, <<72885, 72886>>,
      <<73009, 73014>>, <<73018, 73018>>, <<73020, 73021>>, <<73023, 73029>>, <<73031, 73031>>,
      <<73104, 73105>>, <<73109, 73109>>, <<73111, 73111>>, <<73459, 73460>>, <<78896, 78904>>,
      <<92912, 92916>>, <<92976, 92982>>, <<92992, 92995>>, <<94031, 94031>>, <<94095, 94111>>,
      <<94176, 94177>>, <<94179, 94180>>, <<110576, 110579>>, <<110581, 110587>>, <<110589, 110590>>,
      <<113821, 113822>>, <<113824, 113827>>, <<118528, 118573>>, <<118576, 118598>>, <<119143, 119145>>,
      <<119155, 119170>>, <<119173, 119179>>, <<119210, 119213>>, <<119362, 119364>>, <<121344, 121398>>,
      <<121403, 121452>>, <<121461, 121461>>, <<121476, 121476>>, <<121499, 121503>>, <<121505, 121519>>,
      <<122880, 122886>>, <<122888, 122904>>, <<122907, 122913>>, <<122915, 122916>>, <<122918, 122922>>,
      <<123184, 123197>>, <<123566, 123566>>, <<123628, 123631>>, <<125136, 125142>>, <<125252, 125259>>,
      <<127995, 127999>>, <<917505, 917505>>, <<917536, 917631>>, <<917760, 917999>> }

\* The characters str.lower() looks past on both sides of a capital sigma.
CaseIgnorable == chars_of(CaseIgnorableRanges)

\* The code points of the cased characters that are not case-ignorable.
CasedRanges ==
    { <<65, 90>>, <<97, 122>>, <<170, 170>>, <<181, 181>>, <<186, 186>>, <<192, 214>>, <<216, 246>>,
      <<248, 442>>, <<444, 447>>, <<452, 659>>, <<661, 687>>, <<880, 883>>, <<886, 887>>, <<891, 893>>,
      <<895, 895>>, <<902, 902>>, <<904, 906>>, <<908, 908>>, <<910, 929>>, <<931, 1013>>, <<1015, 1153>>,
      <<1162, 1327>>, <<1329, 1366>>, <<1376, 1416>>, <<4256, 4293>>, <<4295, 4295>>, <<4301, 4301>>,
      <<4304, 4346>>, <<4349, 4351>>, <<5024, 5109>>, <<5112, 5117>>, <<7296, 7304>>, <<7312, 7354>>,
      <<7357, 7359>>, <<7424, 7467>>, <<7531, 7543>>, <<7545, 7578>>, <<7680, 7957>>, <<7960, 7965>>,
      <<7968, 8005>>, <<8008, 8013>>, <<8016, 8023>>, <<8025, 8025>>, <<8027, 8027>>, <<8029, 8029>>,
      <<8031, 8061>>, <<8064, 8116>>, <<8118, 8124>>, <<8126, 8126>>, <<8130, 8132>>, <<8134, 8140>>,
      <<8144, 8147>>, <<8150, 8155>>, <<8160, 8172>>, <<8178, 8180>>, <<8182, 8188>>, <<8450, 8450>>,
      <<8455, 8455>>, <<8458, 8467>>, <<8469, 8469>>, <<8473, 8477>>, <<8484, 8484>>, <<8486, 8486>>,
      <<8488, 8488>>, <<8490, 8493>>, <<8495, 8500>>, <<8505, 8505>>, <<8508, 8511>>, <<8517, 8521>>,
      <<8526, 8526>>, <<8544, 8575>>, <<8579, 8580>>, <<9398, 9449>>, <<11264, 11387>>, <<11390, 11492>>,
      <<11499, 11502>>, <<11506, 11507>>, <<11520, 11557>>, <<11559, 11559>>, <<11565, 11565>>,
      <<42560, 42605>>, <<42624, 42651>>, <<42786, 42863>>, <<42865, 42887>>, <<42891, 42894>>,
      <<42896, 42954>>, <<42960, 42961>>, <<42963, 42963>>, <<42965, 42969>>, <<42997, 42998>>,
      <<43002, 43002>>, <<43824, 43866>>, <<43872, 43880>>, <<43888, 43967>>, <<64256, 64262>>,
      <<64275, 64279>>, <<65313, 65338>>, <<65345, 65370>>, <<66560, 66639>>, <<66736, 66771>>,
      <<66776, 66811>>, <<66928, 66938>>, <<66940, 66954>>, <<66956, 66962>>, <<66964, 66965>>,
      <<66967, 66977>>, <<66979, 66993>>, <<66995, 67001>>, <<67003, 67004>>, <<68736, 68786>>,
      <<68800, 68850>>, <<71840, 71903>>, <<93760, 93823>>, <<119808, 119892>>, <<119894, 119964>>,
      <<119966, 119967>>, <<119970, 119970>>, <<119973, 119974>>, <<119977, 119980>>, <<119982, 119993>>,
      <<119995, 119995>>, <<119997, 120003>>, <<120005, 120069>>, <<120071, 120074>>, <<120077, 120084>>,
      <<120086, 120092>>, <<120094, 120121>>, <<120123, 120126>>, <<120128, 120132>>, <<120134, 120134>>,
      <<120138, 120144>>, <<120146, 120485>>, <<120488, 120512>>, <<120514, 120538>>, <<120540, 120570>>,
      <<120572, 120596>>, <<120598, 120628>>, <<120630, 120654>>, <<120656, 120686>>, <<120688, 120712>>,
      <<120714, 120744>>, <<120746, 120770>>, <<120772, 120779>>, <<122624, 122633>>, <<122635, 122654>>,
      <<125184, 125251>>, <<127280, 127305>>, <<127312, 127337>>, <<127344, 127369>> }

Cased == chars_of(CasedRanges)

\* The lower-case sigma a capital sigma at position i of s becomes: the
\* final one after a cased character when no cased character follows, the
\* case-ignorable characters on both sides looked past.
lower_sigma(s, i) ==
    LET before == {j \in 1..(i - 1) : s[j] \notin CaseIgnorable}
        after  == {j \in (i + 1)..Len(s) : s[j] \notin CaseIgnorable}
        last   == CHOOSE j \in before : \A k \in before : k <= j
        next   == CHOOSE j \in after : \A k \in after : j <= k
    IN  IF before # {} /\ s[last] \in Cased /\ (after = {} \/ s[next] \notin Cased)
        THEN "U+03C2"
        ELSE "U+03C3"

\* What str.lower() puts for the character at position i of s.
lower_at(s, i) ==
    IF s[i] = "U+03A3" THEN <<lower_sigma(s, i)>>
    ELSE IF s[i] = "U+0130" THEN <<"i", "U+0307">>
    ELSE IF s[i] \in DOMAIN LowerOf THEN <<LowerOf[s[i]]>>
    ELSE <<s[i]>>

RECURSIVE lower_from(_, _)
lower_from(s, i) == IF i > Len(s) THEN <<>> ELSE lower_at(s, i) \o lower_from(s, i + 1)

\* str.lower()
lower(s) == lower_from(s, 1)

RECURSIVE lstrip(_)
lstrip(s) ==
    IF s = <<>> THEN s
    ELSE IF Head(s) \in Whitespace THEN lstrip(Tail(s)) ELSE s

RECURSIVE rstrip(_)
rstrip(s) ==
    IF s = <<>> THEN s
    ELSE IF s[Len(s)] \in Whitespace THEN rstrip(SubSeq(s, 1, Len(s) - 1)) ELSE s

\* str.strip()
strip(s) == rstrip(lstrip(s))

\* needle in hay
contains(hay, needle) ==
    \E i \in 0..(Len(hay) - Len(needle)) : SubSeq(hay, i + 1, i + Len(needle)) = needle

\* str.startswith(prefix)
startswith(s, prefix) ==
    Len(s) >= Len(prefix) /\ SubSeq(s, 1, Len(prefix)) = prefix

\* str.endswith('.')
endswith_period(s) == s # <<>> /\ s[Len(s)] = "."

\* str.isdigit()
isdigit(s) == s # <<>> /\ \A i \in 1..Len(s) : s[i] \in Digits

\* The exception int() raises on a string that is no integer literal.
ValueError == [raised |-> "ValueError"]

\* The blanks int() skips at both ends of its argument.
IntBlanks == Whitespace \ {"U+001C", "U+001D", "U+001E", "U+001F"}

\* The number written by a string of decimal digits.
RECURSIVE decimal_value(_)
decimal_value(ds) ==
    IF ds = <<>> THEN 0
    ELSE 10 * decimal_value(SubSeq(ds, 1, Len(ds) - 1)) + DigitValue[ds[Len(ds)]]

\* u is an integer literal without sign and blanks: decimal digits with
\* single underscores between them.
is_unsigned_literal(u) ==
    /\ u # <<>> /\ u[1] # "_" /\ u[Len(u)] # "_"
    /\ \A i \in 1..Len(u) : u[i] \in DOMAIN DigitValue \/ u[i] = "_"
    /\ \A i \in 1..(Len(u) - 1) : u[i] # "_" \/ u[i + 1] # "_"

\* The integer of an unsigned literal.
unsigned_int(u) == decimal_value(SelectSeq(u, LAMBDA c : c # "_"))

\* The integer of the literal t, blanks taken off, or ValueError.
signed_int(t) ==
    IF t # <<>> /\ t[1] \in {"+", "-"}
    THEN (IF ~is_unsigned_literal(Tail(t)) THEN ValueError
          ELSE IF t[1] = "-" THEN 0 - unsigned_int(Tail(t))
          ELSE unsigned_int(Tail(t)))
    ELSE IF is_unsigned_literal(t) THEN unsigned_int(t)
    ELSE ValueError

RECURSIVE int_lstrip(_)
int_lstrip(s) ==
    IF s = <<>> THEN s
    ELSE IF Head(s) \in IntBlanks THEN int_lstrip(Tail(s)) ELSE s

RECURSIVE int_rstrip(_)
int_rstrip(s) ==
    IF s = <<>> THEN s
    ELSE IF s[Len(s)] \in IntBlanks THEN int_rstrip(SubSeq(s, 1, Len(s) - 1)) ELSE s

\* int(s): the integer s writes in base 10, or ValueError.
int(s) == signed_int(int_rstrip(int_lstrip(s)))

\* The concatenation of a sequence of strings, sep between them: sep.join(parts)
RECURSIVE join(_, _)
join(sep, parts) ==
    IF parts = <<>> THEN <<>>
    ELSE IF Len(parts) = 1 THEN parts[1]
    ELSE parts[1] \o sep \o join(sep, Tail(parts))

\* dict.get(k, '')
get(entry, k) == IF k \in DOMAIN entry THEN entry[k] ELSE <<>>

-----------------------------------------------------------------------------
(* 1. Loading: the crossref pass of load_bibliography *)

\* field.startswith('_'), of a field name
startswith_underscore(field) == Len(field) >= 1 /\ SubSeq(field, 1, 1) = "_"

\* entry_map = {e['_key']: e for e in entries}: the key's entry is a reference
\* to the dict in the list (its index); a later entry with the same key wins.
entry_map(es) ==
    [k \in {es[i]["_key"] : i \in 1..Len(es)} |->
        CHOOSE i \in 1..Len(es) :
            es[i]["_key"] = k /\ \A j \in (i + 1)..Len(es) : es[j]["_key"] # k]

\* The inner loop: every non-reserved field of the parent that the child
\* lacks or holds as '' is set on the child.
inherit(e, parent) ==
    [f \in DOMAIN e \cup {g \in DOMAIN parent : ~startswith_underscore(g)} |->
        IF f \in DOMAIN parent /\ ~startswith_underscore(f) /\ get(e, f) = <<>>
        THEN parent[f]
        ELSE e[f]]

\* A lookup that falls back on the first entry when the key is unknown.
parent_of_defaulting(es, xref_key) ==
    IF xref_key \in DOMAIN entry_map(es) THEN entry_map(es)[xref_key] ELSE 1

\* entry_map.get(xref_key): the index of the parent, 0 for None
parent_of(es, xref_key) ==
    IF xref_key \in DOMAIN entry_map(es) THEN entry_map(es)[xref_key] ELSE 0

\* One iteration of `for e in entries`, on the list as it is by then.
resolve_entry(es, i) ==
    LET xref_key == strip(get(es[i], "crossref"))
        parent   == parent_of(es, xref_key)
    IN  IF xref_key = <<>> THEN es
        ELSE IF parent = 0 THEN es
        ELSE [es EXCEPT ![i] = inherit(es[i], es[parent])]

RECURSIVE resolve_from(_, _)
resolve_from(es, i) ==
    IF i > Len(es) THEN es ELSE resolve_from(resolve_entry(es, i), i + 1)

\* The list load_bibliography returns for the dicts built from the parse.
load_bibliography(ds) == resolve_from(ds, 1)

-----------------------------------------------------------------------------
(* 2. Author / name handling *)

\* The last position of the run of whitespace that starts at position i of s
\* (i - 1 when s[i] is no whitespace).
run_end(s, i) ==
    CHOOSE j \in (i - 1)..Len(s) :
        /\ \A k \in i..j : s[k] \in Whitespace
        /\ j = Len(s) \/ s[j + 1] \notin Whitespace

\* The word of the pattern stands at position i of s: 'and' under
\* re.IGNORECASE, which no character other than these six matches.
is_and(s, i) ==
    /\ s[i] \in {"a", "A"} /\ s[i + 1] \in {"n", "N"} /\ s[i + 2] \in {"d", "D"}

\* The end b of the whitespace that is to start at position from, 0 when
\* there is none.
run_or_none(from, b) == IF b < from THEN 0 ELSE b

\* Where the match that starts at position i of s ends, 0 when none starts
\* there, a being the end of the whitespace at i.
match_and_after(s, i, a) ==
    IF a < i \/ a + 3 > Len(s) THEN 0
    ELSE IF ~is_and(s, a + 1) THEN 0
    ELSE run_or_none(a + 4, run_end(s, a + 4))

\* Where the match of \s+and\s+ (re.IGNORECASE) that starts at position i of
\* s ends, 0 when none starts there: all the whitespace from i on, the word
\* in any case, all the whitespace after it.
match_and(s, i) == match_and_after(s, i, run_end(s, i))

\* re.split(r'\s+and\s+', s, flags=re.IGNORECASE): the piece that starts at
\* start, the scan being at position i; split_at is the step for the end m
\* of the match at i.
RECURSIVE re_split_and(_, _, _)
RECURSIVE split_at(_, _, _, _)
split_at(s, start, i, m) ==
    IF m > 0
    THEN <<SubSeq(s, start, i - 1)>> \o re_split_and(s, m + 1, m + 1)
    ELSE re_split_and(s, start, i + 1)

re_split_and(s, start, i) ==
    IF i > Len(s) THEN <<SubSeq(s, start, Len(s))>>
    ELSE split_at(s, start, i, match_and(s, i))

not_blank(part) == strip(part) # <<>>

\* [p.strip() for p in parts]
strip_each(parts) == [i \in 1..Len(parts) |-> strip(parts[i])]

_parse_names(s) == strip_each(SelectSeq(re_split_and(s, 1, 1), not_blank))

\* The position of the first comma of s, 0 when it has none: name.split(',', 1)
first_comma(s) ==
    IF \E i \in 1..Len(s) : s[i] = ","
    THEN CHOOSE i \in 1..Len(s) : s[i] = "," /\ \A j \in 1..(i - 1) : s[j] # ","
    ELSE 0

\* A name left as written, whatever its form.
_format_name_as_written(name) == strip(name)

\* The stripped name n, its first comma at position c: "First Last".
first_last(n, c) ==
    IF c > 0
    THEN strip(SubSeq(n, c + 1, Len(n))) \o <<" ">> \o strip(SubSeq(n, 1, c - 1))
    ELSE n

\* _format_name of a stripped name.
format_stripped(n) == first_last(n, first_comma(n))

_format_name(name) == format_stripped(strip(name))

\* [_format_name(n) for n in names]
format_each(ns) == [i \in 1..Len(ns) |-> _format_name(ns[i])]

\* The formatted names as prose.
join_names(fmt) ==
    IF Len(fmt) = 0 THEN <<>>
    ELSE IF Len(fmt) = 1 THEN fmt[1]
    ELSE IF Len(fmt) = 2 THEN fmt[1] \o <<" ", "a", "n", "d", " ">> \o fmt[2]
    ELSE join(<<",", " ">>, SubSeq(fmt, 1, Len(fmt) - 1))
            \o <<",", " ", "a", "n", "d", " ">> \o fmt[Len(fmt)]

_format_name_list(s) == join_names(format_each(_parse_names(s)))

\* filter_str.lower() in name_str.lower()
_author_matches(s, filter_str) == contains(lower(s), lower(filter_str))

-----------------------------------------------------------------------------
(* 3. Field helpers *)

\* The characters of the program's output that are not ASCII, each one
\* character of the Python string.
EnDash == "U+2013"
MiddleDot == "U+00B7"

\* _get(entry, *keys, default=default): the first of the fields that is not
\* blank, stripped; get_or_next is the step for the stripped value v of the
\* first key.
RECURSIVE _get(_, _, _)
RECURSIVE get_or_next(_, _, _, _)
get_or_next(v, entry, keys, default) ==
    IF v # <<>> THEN v ELSE _get(entry, keys, default)

_get(entry, keys, default) ==
    IF keys = <<>> THEN default
    ELSE get_or_next(strip(get(entry, Head(keys))), entry, Tail(keys), default)

\* re.sub(r'\s*-{1,2}\s*', EnDash, p), from position i on: a match is the
\* whitespace before one or two hyphens, the hyphens, the whitespace after.
RECURSIVE sub_hyphens(_, _)
sub_hyphens(p, i) ==
    IF i > Len(p) THEN <<>>
    ELSE LET a == run_end(p, i)
         IN  IF a + 1 <= Len(p) /\ p[a + 1] = "-"
             THEN LET h == IF a + 2 <= Len(p) /\ p[a + 2] = "-" THEN a + 2 ELSE a + 1
                  IN  <<EnDash>> \o sub_hyphens(p, run_end(p, h + 1) + 1)
             ELSE <<p[i]>> \o sub_hyphens(p, i + 1)

_pages(entry) ==
    LET p == _get(entry, <<"pages">>, <<>>)
    IN  IF p = <<>> THEN <<>>
        ELSE <<"p", "p", ".", "&", "n", "b", "s", "p", ";">> \o sub_hyphens(p, 1)

\* re.sub(r'^https?://(dx\.)?doi\.org/', '', doi)
strip_resolver(doi) ==
    LET prefixes == << <<"h", "t", "t", "p", "s", ":", "/", "/", "d", "x", ".", "d", "o", "i", ".", "o", "r", "g", "/">>, <<"h", "t", "t", "p", "s", ":", "/", "/", "d", "o", "i", ".", "o", "r", "g", "/">>,
                       <<"h", "t", "t", "p", ":", "/", "/", "d", "x", ".", "d", "o", "i", ".", "o", "r", "g", "/">>, <<"h", "t", "t", "p", ":", "/", "/", "d", "o", "i", ".", "o", "r", "g", "/">> >>
        hits == {i \in 1..Len(prefixes) : startswith(doi, prefixes[i])}
    IN  IF hits = {} THEN doi
        ELSE LET i == CHOOSE j \in hits : TRUE
             IN  SubSeq(doi, Len(prefixes[i]) + 1, Len(doi))

_doi_link(doi0) ==
    IF doi0 = <<>> THEN <<>>
    ELSE LET doi == strip(doi0)
             url == IF startswith(doi, <<"h", "t", "t", "p">>) THEN doi
                    ELSE <<"h", "t", "t", "p", "s", ":", "/", "/", "d", "o", "i", ".", "o", "r", "g", "/">> \o doi
             display == IF startswith(doi, <<"h", "t", "t", "p">>) THEN strip_resolver(doi)
                        ELSE doi
         IN  <<"D", "O", "I", ":", " ", "<", "a", " ", "h", "r", "e", "f", "=", "\"">> \o url \o <<"\"", ">">> \o display \o <<"<", "/", "a", ">">>

-----------------------------------------------------------------------------
(* 4. Venue rendering per entry type *)

\* The strings of parts that are not empty, in their order.
non_empty(parts) == SelectSeq(parts, LAMBDA x : x # <<>>)

\* prefix + value when value is not empty, '' otherwise
with_prefix(prefix, value) == IF value = <<>> THEN <<>> ELSE prefix \o value

\* The j of an article with a journal: the volume in bold, and after a
\* volume the number in parentheses.
article_journal(journal, volume, number) ==
    <<"<", "i", ">">> \o journal \o <<"<", "/", "i", ">">>
        \o (IF volume # <<>>
            THEN <<" ", "<", "b", ">">> \o volume \o <<"<", "/", "b", ">">>
                    \o (IF number # <<>> THEN <<"(">> \o number \o <<")">> ELSE <<>>)
            ELSE <<>>)

\* The venue text of the entry's type, before links and note.
type_venue(entry) ==
    LET etype     == get(entry, "_type")
        booktitle == _get(entry, <<"booktitle">>, <<>>)
        journal   == _get(entry, <<"journal">>, <<>>)
        publisher == _get(entry, <<"publisher">>, <<>>)
        school    == _get(entry, <<"school">>, <<>>)
        series    == _get(entry, <<"series">>, <<>>)
        volume    == _get(entry, <<"volume">>, <<>>)
        number    == _get(entry, <<"number">>, <<>>)
        address   == _get(entry, <<"address">>, <<>>)
        isbn      == _get(entry, <<"isbn">>, <<>>)
        note      == _get(entry, <<"note">>, <<>>)
        editor    == _get(entry, <<"editor">>, <<>>)
        pages     == _pages(entry)
    IN  IF etype = <<"i", "n", "p", "r", "o", "c", "e", "e", "d", "i", "n", "g", "s">>
        THEN with_prefix(<<"I", "n", " ", "<", "i", ">">>, booktitle) \o (IF booktitle # <<>> THEN <<"<", "/", "i", ">">> ELSE <<>>)
                \o with_prefix(<<",", " ">>, address)
                \o with_prefix(<<",", " ">>, pages)
        ELSE IF etype = <<"a", "r", "t", "i", "c", "l", "e">>
        THEN LET j == IF journal # <<>> THEN article_journal(journal, volume, number)
                      ELSE <<>>
             IN  IF pages # <<>>
                 THEN j \o (IF j # <<>> THEN <<",", " ">> ELSE <<>>) \o pages
                 ELSE j
        ELSE IF etype = <<"b", "o", "o", "k">>
        THEN join(<<".", " ">>, non_empty(<<series, publisher, address,
                                      with_prefix(<<"I", "S", "B", "N", " ">>, isbn)>>))
        ELSE IF etype \in {<<"i", "n", "c", "o", "l", "l", "e", "c", "t", "i", "o", "n">>, <<"i", "n", "b", "o", "o", "k">>}
        THEN join(<<" ">>, non_empty(<<
                IF editor # <<>>
                THEN <<"I", "n", " ">> \o _format_name_list(editor) \o <<" ", "(", "e", "d", ".", ")", ",">>
                ELSE <<>>,
                IF booktitle # <<>> THEN <<"<", "i", ">">> \o booktitle \o <<"<", "/", "i", ">">> ELSE <<>>,
                publisher,
                pages>>))
        ELSE IF etype \in {<<"p", "h", "d", "t", "h", "e", "s", "i", "s">>, <<"m", "a", "s", "t", "e", "r", "t", "h", "e", "s", "i", "s">>, <<"m", "a", "s", "t", "e", "r", "s", "t", "h", "e", "s", "i", "s">>}
        THEN (IF contains(etype, <<"p", "h", "d">>) THEN <<"P", "h", "D", " ", "t", "h", "e", "s", "i", "s">> ELSE <<"M", "a", "s", "t", "e", "r", "'", "s", " ", "t", "h", "e", "s", "i", "s">>)
                \o with_prefix(<<",", " ">>, school)
        ELSE IF etype = <<"t", "e", "c", "h", "r", "e", "p", "o", "r", "t">>
        THEN <<"T", "e", "c", "h", "n", "i", "c", "a", "l", " ", "R", "e", "p", "o", "r", "t">>
                \o with_prefix(<<" ">>, _get(entry, <<"number">>, <<>>))
                \o with_prefix(<<",", " ">>, _get(entry, <<"institution">>, <<>>))
        ELSE IF etype = <<"p", "r", "o", "c", "e", "e", "d", "i", "n", "g", "s">>
        THEN join(<<",", " ">>, non_empty(<<publisher, address,
                                     with_prefix(<<"I", "S", "B", "N", " ">>, isbn)>>))
        ELSE note

\* The links of the entry: its url, its doi.
venue_links(entry) ==
    LET url == _get(entry, <<"url">>, <<>>)
        doi == _get(entry, <<"doi">>, <<>>)
    IN  non_empty(<<
            IF url = <<>> THEN <<>>
            ELSE IF contains(url, <<"a", "c", "l", "a", "n", "t", "h", "o", "l", "o", "g", "y">>) \/ contains(url, <<"a", "c", "l", "w", "e", "b", ".", "o", "r", "g", "/", "a", "n", "t", "h", "o", "l", "o", "g", "y">>)
                 THEN <<"<", "a", " ", "h", "r", "e", "f", "=", "\"">> \o url \o <<"\"", ">", "A", "C", "L", " ", "A", "n", "t", "h", "o", "l", "o", "g", "y", "<", "/", "a", ">">>
                 ELSE <<"<", "a", " ", "h", "r", "e", "f", "=", "\"">> \o url \o <<"\"", ">">> \o url \o <<"<", "/", "a", ">">>,
            _doi_link(doi)>>)

\* sep = '. ' if venue and not venue.endswith('.') else (' ' if venue else '')
links_sep(venue_) ==
    IF venue_ # <<>> /\ ~endswith_period(venue_) THEN <<".", " ">>
    ELSE IF venue_ # <<>> THEN <<" ">> ELSE <<>>

\* if links: venue = venue + sep + '; '.join(links)
append_links(venue_, links) ==
    IF links # <<>> THEN venue_ \o links_sep(venue_) \o join(<<";", " ">>, links)
    ELSE venue_

\* if note and note not in venue: venue += f' ({note})'
append_note(venue_, note) ==
    IF note # <<>> /\ ~contains(venue_, note)
    THEN venue_ \o <<" ", "(">> \o note \o <<")">>
    ELSE venue_

_venue_html(entry) ==
    strip(append_note(append_links(type_venue(entry), venue_links(entry)),
                      _get(entry, <<"note">>, <<>>)))

-----------------------------------------------------------------------------
(* 5. Single-entry rendering *)

\* person_str: the formatted names of the author, or of the editor with
\* ' (eds)' when there is no author, or 'Unknown'.
person_str_of(author, editor) ==
    IF author # <<>> THEN _format_name_list(author)
    ELSE IF editor # <<>> THEN _format_name_list(editor) \o <<" ", "(", "e", "d", "s", ")">>
    ELSE <<"U", "n", "k", "n", "o", "w", "n">>

\* title_el: the title, linked when the entry has a url.
title_el_of(url, title) ==
    IF url # <<>>
    THEN <<"<", "a", " ", "c", "l", "a", "s", "s", "=", "\"", "b", "i", "b", "-", "t", "i", "t", "l", "e", "\"", " ", "h", "r", "e", "f", "=", "\"">> \o url \o <<"\"", ">">> \o title \o <<"<", "/", "a", ">">>
    ELSE <<"<", "s", "p", "a", "n", " ", "c", "l", "a", "s", "s", "=", "\"", "b", "i", "b", "-", "t", "i", "t", "l", "e", "\"", ">">> \o title \o <<"<", "/", "s", "p", "a", "n", ">">>

\* The div returned for an entry.
entry_div(key, person_str, year, title_el, venue_) ==
    <<"<", "d", "i", "v", " ", "c", "l", "a", "s", "s", "=", "\"", "b", "i", "b", "-", "e", "n", "t", "r", "y", "\"">> \o (IF key # <<>> THEN <<" ", "i", "d", "=", "\"">> \o key \o <<"\"">> ELSE <<>>) \o <<">", "\n">>
        \o <<" ", " ", "<", "s", "p", "a", "n", " ", "c", "l", "a", "s", "s", "=", "\"", "b", "i", "b", "-", "m", "e", "t", "a", "\"", ">">> \o person_str \o <<" ", "(">> \o year \o <<")", ".">> \o <<"<", "/", "s", "p", "a", "n", ">", "\n">>
        \o <<" ", " ">> \o title_el \o <<".", "\n">>
        \o (IF venue_ # <<>>
            THEN <<" ", " ", "<", "s", "p", "a", "n", " ", "c", "l", "a", "s", "s", "=", "\"", "b", "i", "b", "-", "v", "e", "n", "u", "e", "\"", ">">> \o venue_ \o <<"<", "/", "s", "p", "a", "n", ">", "\n">>
            ELSE <<>>)
        \o <<"<", "/", "d", "i", "v", ">">>

_render_entry(entry) ==
    entry_div(get(entry, "_key"),
              person_str_of(_get(entry, <<"author">>, <<>>), _get(entry, <<"editor">>, <<>>)),
              _get(entry, <<"year">>, <<>>),
              title_el_of(_get(entry, <<"url">>, <<>>), _get(entry, <<"title">>, <<>>)),
              _venue_html(entry))

-----------------------------------------------------------------------------
(* 6. Full bibliography *)

\* The objects of a call of render_bibliography(entries): the dicts of the
\* entries, which a list refers to by their position in dicts, and the list
\* objects, the first of which is the list the caller passed.
heap_of(es) == [dicts |-> es, lists |-> << [i \in 1..Len(es) |-> i] >>]

\* The list the caller passed, as the heap holds it.
entries_in(h) == [i \in 1..Len(h.lists[1]) |-> h.dicts[h.lists[1][i]]]

\* A list that is written over the list object the caller passed.
new_list_in_place(h, content) ==
    [heap |-> [h EXCEPT !.lists[1] = content], ref |-> 1]

\* A list comprehension, list(...) or the list of defaultdict(list): a new
\* list object with the content, and the reference to it.
new_list(h, content) ==
    [heap |-> [h EXCEPT !.lists = Append(@, content)], ref |-> Len(h.lists) + 1]

\* The content of visible: every entry of the list without a filter (None
\* or ''), else those whose author, or editor when the author is blank,
\* matches it.
visible(h, filter) ==
    IF filter = None \/ filter = <<>> THEN h.lists[1]
    ELSE SelectSeq(h.lists[1], LAMBDA e :
            _author_matches(_get(h.dicts[e], <<"author", "editor">>, <<>>), filter))

\* The key of by_year an entry is appended under.
year_of(e) == _get(e, <<"year">>, <<"u", "n", "d", "a", "t", "e", "d">>)

\* by_year with the key y added for the new list nl.
with_key(g, y, nl) ==
    [heap |-> nl.heap, keys |-> Append(g.keys, y), refs |-> Append(g.refs, nl.ref)]

\* by_year[y] is looked up: a key by_year has not is added with a new list
\* (defaultdict(list)).
by_year_get(g, y) ==
    IF \E k \in 1..Len(g.keys) : g.keys[k] = y THEN g
    ELSE with_key(g, y, new_list(g.heap, <<>>))

\* The list object by_year holds for the key y.
ref_of(g, y) == g.refs[CHOOSE k \in 1..Len(g.keys) : g.keys[k] = y]

\* The list object ref .append(e)
append_to(g, ref, e) == [g EXCEPT !.heap.lists[ref] = Append(@, e)]

\* by_year[y].append(e), by_year holding the key y.
append_at_key(g, y, e) == append_to(g, ref_of(g, y), e)

\* by_year[y].append(e)
append_under(g, y, e) == append_at_key(by_year_get(g, y), y, e)

\* for e in visible: by_year[year].append(e), from the i-th entry of visible
\* on. g holds the heap, the keys of by_year in the order they were added
\* and the list object of each key.
RECURSIVE group_from(_, _, _)
group_from(g, vis, i) ==
    IF i > Len(vis) THEN g
    ELSE group_from(append_under(g, year_of(g.heap.dicts[vis[i]]), vis[i]), vis, i + 1)

\* by_year after the loop over the list v refers to.
grouped_from(v) ==
    group_from([heap |-> v.heap, keys |-> <<>>, refs |-> <<>>], v.heap.lists[v.ref], 1)

\* visible, a new list of the heap h.
visible_in(h, filter) == new_list(h, visible(h, filter))

\* The heap and by_year after the grouping of a call.
grouped(es, filter) == grouped_from(visible_in(heap_of(es), filter))

\* by_year.keys(): the years of the visible entries, each once, in the order
\* of their first entry.
by_year_keys(g) == g.keys

\* The dicts a list of the heap refers to.
dicts_of(h, refs) == [i \in 1..Len(refs) |-> h.dicts[refs[i]]]

\* by_year[y]: the visible entries of year y, in the order of the appends.
by_year(g, y) == dicts_of(g.heap, g.heap.lists[ref_of(g, y)])

\* key=lambda y: int(y) if y.isdigit() else 0
year_key(y) == IF isdigit(y) THEN int(y) ELSE 0

\* The key of y raises ValueError: y.isdigit() holds and int() cannot read y,
\* one of its digits having no decimal value.
year_key_raises(y) == isdigit(y) /\ \E i \in 1..Len(y) : y[i] \notin DOMAIN DigitValue

\* ys with y put after its last element whose key is at least y's.
insert_desc(ys, y) ==
    LET ahead == {i \in 1..Len(ys) : year_key(ys[i]) >= year_key(y)}
        n     == IF ahead = {} THEN 0 ELSE CHOOSE i \in ahead : \A j \in ahead : j <= i
    IN  SubSeq(ys, 1, n) \o <<y>> \o SubSeq(ys, n + 1, Len(ys))

\* sorted(keys, reverse=True, key=year_key): descending keys, years of equal
\* key in the order they have in keys (the sort is stable, reversed or not).
RECURSIVE sorted_years(_)
sorted_years(keys) ==
    IF keys = <<>> THEN <<>>
    ELSE insert_desc(sorted_years(SubSeq(keys, 1, Len(keys) - 1)), keys[Len(keys)])

\* nav_years = [y for y in years if y.isdigit()]
nav_years_of(years) == SelectSeq(years, isdigit)

\* (int(y) // 10) * 10
decade_of(y) == (int(y) \div 10) * 10

\* sorted(S, reverse=True) of a set of integers
RECURSIVE sorted_desc(_)
sorted_desc(S) ==
    IF S = {} THEN <<>>
    ELSE LET m == CHOOSE x \in S : \A z \in S : z <= x
         IN  <<m>> \o sorted_desc(S \ {m})

\* A navigation bar of one row.
nav_rows_one_row(years) ==
    IF SelectSeq(years, isdigit) = <<>> THEN <<>> ELSE <<SelectSeq(years, isdigit)>>

\* The rows of the navigation bar: by_decade[decade] for each decade, most
\* recent first; a row holds its years in the order of nav_years.
nav_rows(years) ==
    LET nav_years == nav_years_of(years)
        decades   == sorted_desc({decade_of(nav_years[i]) : i \in 1..Len(nav_years)})
    IN  [d \in 1..Len(decades) |->
            SelectSeq(nav_years, LAMBDA y : decade_of(y) = decades[d])]

nav_link(y) == <<"<", "a", " ", "h", "r", "e", "f", "=", "\"", "#">> \o y \o <<"\"", ">">> \o y \o <<"<", "/", "a", ">">>

nav_html_of(rows) ==
    <<"<", "p", " ", "c", "l", "a", "s", "s", "=", "\"", "b", "i", "b", "-", "n", "a", "v", "\"", ">", "\n", " ", " ">>
        \o join(<<"\n", " ", " ", "<", "b", "r", ">", "\n", " ", " ">>,
                [r \in 1..Len(rows) |->
                    join(<<" ", MiddleDot, " ">>, [i \in 1..Len(rows[r]) |-> nav_link(rows[r][i])])])
        \o <<"\n", "<", "/", "p", ">">>

\* label = year if year != 'undated' else 'Undated'
label_of(year) == IF year # <<"u", "n", "d", "a", "t", "e", "d">> THEN year ELSE <<"U", "n", "d", "a", "t", "e", "d">>

\* The section of a year: its label, the keys of its entries, its HTML.
section_of(label, body) ==
    [label |-> label,
     ids   |-> [i \in 1..Len(body) |-> get(body[i], "_key")],
     html  |-> <<"<", "h", "3", " ", "i", "d", "=", "\"">> \o label \o <<"\"", ">">> \o label
                \o <<"<", "/", "h", "3", ">", "\n", "<", "d", "i", "v", " ", "c", "l", "a", "s", "s", "=", "\"", "b", "i", "b", "-", "s", "e", "c", "t", "i", "o", "n", "\"", ">", "\n", "\n">>
                \o join(<<"\n", "\n">>, [i \in 1..Len(body) |-> _render_entry(body[i])])
                \o <<"\n", "\n", "<", "/", "d", "i", "v", ">">>]

\* The year sections, in the order of years.
sections_of(g, years) ==
    [s \in 1..Len(years) |-> section_of(label_of(years[s]), by_year(g, years[s]))]

\* What render_bibliography computed when it returns, from its years, the rows of its
\* navigation bar and its sections: these, and the string it returns.
rendered(years, rows, sections) ==
    [years    |-> years,
     nav      |-> rows,
     sections |-> [s \in 1..Len(sections) |->
                      [label |-> sections[s].label, ids |-> sections[s].ids]],
     html     |-> nav_html_of(rows) \o <<"\n", "\n", "<", "h", "r", ">", "\n", "\n">>
                    \o join(<<"\n", "\n", "\n">>, [s \in 1..Len(sections) |-> sections[s].html])]

\* The rendering of the entries of by_year under their sorted years.
render_years(g, years) == rendered(years, nav_rows(years), sections_of(g, years))

\* The rendering of the entries filed under keys: sorted() computes the key
\* of every year, and raises what a key raises.
render_keys(g, keys) ==
    IF \E i \in 1..Len(keys) : year_key_raises(keys[i]) THEN ValueError
    ELSE render_years(g, sorted_years(keys))

\* The rendering of the grouped entries.
render_grouped(g) == render_keys(g, by_year_keys(g))

render_bibliography(es, filter) == render_grouped(grouped(es, filter))

\* The list the caller passed, after the call (it returned or raised).
entries_after_render(es, filter) == entries_in(grouped(es, filter).heap)

-----------------------------------------------------------------------------
(* Inputs of the loading specification *)

KeyNames == <<"A", "B", "C", "D", "E">>

\* The citation key of the i-th entry of a file: keys are unique in a library.
KeyOf(i) == <<KeyNames[i]>>

\* The year the i-th entry declares when it declares one of its own.
OwnYear(i) == <<"1", "9", "9", KeyNames[i]>>

\* A crossref naming no entry.
DanglingKey == <<"X">>

\* What the crossref field of an entry of an n-entry file may be: absent
\* (None), the key of any entry, a key with a blank before it and the end of
\* a line after it, an unknown key.
CrossrefChoices(n) ==
    {None, DanglingKey, <<" ">> \o KeyOf(1) \o <<"\r", "\n">>} \cup {KeyOf(j) : j \in 1..n}

\* What the year field may be: absent, empty, its own value.
YearChoice(i, c) == CASE c = 0 -> None [] c = 1 -> <<>> [] OTHER -> OwnYear(i)

\* A dict from the fields given, the None ones left out.
MakeEntry(fields) ==
    [f \in {g \in DOMAIN fields : fields[g] # None} |-> fields[f]]

\* The dict built for the i-th entry of a file; every other entry holds a
\* field a reference manager wrote, its name starting with underscores.
ParsedEntry(i, xref, year) ==
    MakeEntry([_type |-> <<"m", "i", "s", "c">>, _key |-> KeyOf(i),
               crossref |-> xref, year |-> year,
               __markedentry |-> IF i % 2 = 1 THEN <<"[", KeyNames[i], "]">> ELSE None])

-----------------------------------------------------------------------------
(* The loading specification: a file is parsed, then load_bibliography *)
(* resolves its crossrefs.                                              *)

Idle ==
    /\ author_filter = None /\ out = None /\ first_out = None
    /\ names = <<>> /\ name_str = None /\ formatted = None
    /\ ventry = None /\ venue = None

InitLoad ==
    /\ \E n \in 0..MaxEntries :
         \E x \in [1..n -> CrossrefChoices(n)], y \in [1..n -> 0..2] :
            parsed = [i \in 1..n |-> ParsedEntry(i, x[i], YearChoice(i, y[i]))]
    /\ entries = <<>>
    /\ pc = "start"
    /\ Idle

Load ==
    /\ pc = "start"
    /\ entries' = load_bibliography(parsed)
    /\ pc' = "loaded"
    /\ UNCHANGED <<parsed, author_filter, out, first_out,
                   names, name_str, formatted, ventry, venue>>

NextLoad == Load

SpecLoad == InitLoad /\ [][NextLoad]_vars

-----------------------------------------------------------------------------
(* The name specification: an author string is written from a list of *)
(* names and _format_name_list formats it.                             *)

\* Names as written in a .bib file, each with the form it is displayed in.
NamePool ==
    { [raw |-> <<"T", " ", "H", "a", "n", "d">>,
       shown |-> <<"T", " ", "H", "a", "n", "d">>],
      [raw |-> <<"B", "o", "n", "d", ",", " ", "F">>,
       shown |-> <<"F", " ", "B", "o", "n", "d">>],
      [raw |-> <<"A", "n", "d", ",", "Y">>,
       shown |-> <<"Y", " ", "A", "n", "d">>],
      [raw |-> <<"L", "e", "e", ",", " ", "J", ",", " ", "K">>,
       shown |-> <<"J", ",", " ", "K", " ", "L", "e", "e">>] }

\* The separators written between two names.
Separators ==
    { <<" ", "a", "n", "d", " ">>,
      <<" ", "A", "N", "D", " ">>,
      <<"\r", "\n", "a", "n", "d", "\t">>,
      <<"\n", "A", "n", "d", " ", "U+00A0">> }

\* What may stand before the first name and after the last: nothing, blanks,
\* a separator with no name on its other side.
Margins == {<<>>, <<" ">>, <<" ", "a", "n", "d", " ">>}

InitNames ==
    /\ \E n \in 0..MaxNames :
         \E ns \in [1..n -> NamePool], sep \in Separators,
            lead \in Margins, trail \in Margins :
            /\ n = 0 => Len(lead) + Len(trail) <= 6
            /\ names = ns
            /\ name_str = lead \o join(sep, [i \in 1..n |-> ns[i].raw]) \o trail
    /\ formatted = None
    /\ pc = "start"
    /\ parsed = <<>> /\ entries = <<>>
    /\ author_filter = None /\ out = None /\ first_out = None
    /\ ventry = None /\ venue = None

FormatNameList ==
    /\ pc = "start"
    /\ formatted' = _format_name_list(name_str)
    /\ pc' = "formatted"
    /\ UNCHANGED <<parsed, entries, author_filter, out, first_out,
                   names, name_str, ventry, venue>>

NextNames == FormatNameList

SpecNames == InitNames /\ [][NextNames]_vars

-----------------------------------------------------------------------------
(* Inputs of the rendering specifications *)

\* What the year field of a loaded entry may be: absent (None), a year, the
\* same year between a blank and the end of a line, the same year in
\* Arabic-Indic digits, two years of one decade (one of them in Arabic-Indic
\* digits), the year 0, a year that is no number, the word the program files
\* a missing year under, a superscript two.
YearPool ==
    { None, <<"2", "0", "2", "1">>, <<" ", "2", "0", "2", "1", "\r", "\n">>,
      <<"U+0662", "U+0660", "U+0662", "U+0661">>,
      <<"2", "0", "1", "9">>, <<"U+0662", "U+0660", "U+0661", "U+0665">>,
      <<"0">>, <<"n", ".", "d", ".">>, <<"u", "n", "d", "a", "t", "e", "d">>, <<"U+00B2">> }

\* The years of the specification that varies the persons: a year, none, and
\* a year that is no number.
FilterYears == { None, <<"2", "0", "2", "1">>, <<"n", ".", "d", ".">> }

\* The author and editor fields of a loaded entry, None for an absent one.
PersonPool ==
    { [author |-> <<"B", "o", "n", "d", ",", " ", "F">>,  editor |-> None],
      [author |-> <<"S", "m", "i", "t", "h", ",", " ", "J">>, editor |-> <<"F", " ", "B", "o", "n", "d">>],
      [author |-> None,        editor |-> <<"F", " ", "B", "O", "N", "D", " ", "a", "n", "d", " ", "S", "m", "i", "t", "h", ",", " ", "J">>],
      [author |-> <<" ">>,        editor |-> <<"b", "o", "n", "d">>],
      [author |-> <<" ", "B", "o", "n", "d", "y", ",", " ", "U+00C9", " ">>,  editor |-> None],
      [author |-> None,        editor |-> None] }

\* The persons of the i-th entry in the specification that varies the years.
PersonAt(i) ==
    IF i % 2 = 1 THEN [author |-> <<"B", "o", "n", "d", ",", " ", "F">>, editor |-> None]
    ELSE [author |-> None, editor |-> <<"S", "m", "i", "t", "h", ",", " ", "J">>]

\* The author filters of the calls: none, the empty string, words in either
\* case, text with a blank at its end, text with an accented letter.
FilterPool ==
    { None, <<>>, <<"b", "o", "n", "d">>, <<"S", "M", "I", "T", "H">>, <<"y", " ">>,
      <<"Y", ",", " ", "U+00E9">> }

FewFilters == { None, <<"b", "o", "n", "d">> }

LoadedEntry(i, year, person) ==
    MakeEntry([_type |-> <<"m", "i", "s", "c">>, _key |-> KeyOf(i), title |-> <<"T", KeyNames[i]>>,
               year |-> year, author |-> person.author, editor |-> person.editor])

\* The state after load_bibliography returned es.
Loaded(es) ==
    /\ entries = es
    /\ parsed = es
    /\ pc = "loaded"
    /\ author_filter = None /\ out = None
    /\ names = <<>> /\ name_str = None /\ formatted = None
    /\ ventry = None /\ venue = None

\* A call of render_bibliography(entries, f).
Render(f) ==
    /\ author_filter' = f
    /\ out' = render_bibliography(entries, f)
    /\ entries' = entries_after_render(entries, f)
    /\ pc' = "rendered"
    /\ UNCHANGED <<parsed, names, name_str, formatted, ventry, venue>>

-----------------------------------------------------------------------------
(* The year specification: bibliographies whose entries vary in their *)
(* years are rendered.                                                 *)

InitYears ==
    /\ \E n \in 0..MaxEntries : \E y \in [1..n -> YearPool] :
         Loaded([i \in 1..n |-> LoadedEntry(i, y[i], PersonAt(i))])
    /\ first_out = None

RenderYears ==
    /\ pc = "loaded"
    /\ \E f \in FewFilters : Render(f) /\ UNCHANGED first_out

NextYears == RenderYears

SpecYears == InitYears /\ [][NextYears]_vars

-----------------------------------------------------------------------------
(* The filter specification: bibliographies whose entries vary in their *)
(* authors and editors are rendered under the filters.                   *)

InitFilter ==
    /\ \E n \in 0..MaxEntries : \E p \in [1..n -> PersonPool], y \in [1..n -> FilterYears] :
         Loaded([i \in 1..n |-> LoadedEntry(i, y[i], p[i])])
    /\ first_out = None

RenderFiltered ==
    /\ pc = "loaded"
    /\ \E f \in FilterPool : Render(f) /\ UNCHANGED first_out

NextFilter == RenderFiltered

SpecFilter == InitFilter /\ [][NextFilter]_vars

-----------------------------------------------------------------------------
(* The repeated-call specification: one loaded list is rendered again and *)
(* again, and the string each filter gave first is kept.                   *)

RepeatFilters == { None, <<"S", "M", "I", "T", "H">> }

RepeatPersons ==
    { [author |-> <<"B", "o", "n", "d", ",", " ", "F">>,  editor |-> None],
      [author |-> None,        editor |-> <<"J", " ", "S", "M", "I", "T", "H">>] }

\* The years of the repeated calls: a year, none, and a superscript two, a
\* digit int() does not read.
RepeatYears == { None, <<"2", "0", "2", "1">>, <<"U+00B2">> }

InitRepeat ==
    /\ \E n \in 0..MaxEntries : \E p \in [1..n -> RepeatPersons], y \in [1..n -> RepeatYears] :
         Loaded([i \in 1..n |-> LoadedEntry(i, y[i], p[i])])
    /\ first_out = <<>>

RenderAgain ==
    \E f \in RepeatFilters :
        /\ pc \in {"loaded", "rendered"}
        /\ Render(f)
        /\ first_out' =
             [g \in DOMAIN first_out \cup {f} |->
                IF g # f THEN first_out[g]
                ELSE IF f \in DOMAIN first_out
                     THEN [first_out[f] EXCEPT !.again = TRUE]
                     ELSE [out |-> out', again |-> FALSE]]

NextRepeat == RenderAgain

SpecRepeat == InitRepeat /\ [][NextRepeat]_vars

-----------------------------------------------------------------------------
(* The venue specification: _venue_html renders the venue of an entry. *)

TypePool ==
    { <<"a", "r", "t", "i", "c", "l", "e">>, <<"i", "n", "p", "r", "o", "c", "e", "e", "d", "i", "n", "g", "s">>, <<"b", "o", "o", "k">>, <<"i", "n", "c", "o", "l", "l", "e", "c", "t", "i", "o", "n">>, <<"p", "h", "d", "t", "h", "e", "s", "i", "s">>,
      <<"m", "a", "s", "t", "e", "r", "s", "t", "h", "e", "s", "i", "s">>, <<"t", "e", "c", "h", "r", "e", "p", "o", "r", "t">>, <<"p", "r", "o", "c", "e", "e", "d", "i", "n", "g", "s">>, <<"m", "i", "s", "c">> }

InitVenue ==
    /\ \E t \in TypePool,
          journal \in {None, <<"J", "A", "I", "R">>},
          volume \in {None, <<>>, <<"1", "0">>},
          number \in {None, <<>>, <<"2">>},
          pages \in {None, <<"1", "-", "-", "2", "0">>, <<"7", "\r", "-", "U+00A0", "9">>},
          booktitle \in {None, <<"P", "r", "o", "c", ".", " ", "A", "C", "L">>},
          publisher \in {None, <<"M", "I", "T", " ", "P", "r", "e", "s", "s", ".">>},
          note \in {None, <<"t", "o", " ", "a", "p", "p", "e", "a", "r">>, <<"i">>},
          url \in {None, <<"h", "t", "t", "p", ":", "/", "/", "a", "c", "l", "w", "e", "b", ".", "o", "r", "g", "/", "a", "n", "t", "h", "o", "l", "o", "g", "y", "/", "P", "1">>},
          doi \in {None, <<"h", "t", "t", "p", "s", ":", "/", "/", "d", "x", ".", "d", "o", "i", ".", "o", "r", "g", "/", "1", "0", ".", "1", "/", "x">>, <<"1", "0", ".", "1", "/", "x">>} :
            ventry = MakeEntry([_type |-> t, _key |-> KeyOf(1), journal |-> journal,
                                volume |-> volume, number |-> number, pages |-> pages,
                                booktitle |-> booktitle, publisher |-> publisher,
                                editor |-> IF booktitle = None THEN None ELSE <<"B", "o", "n", "d", ",", " ", "F">>,
                                school |-> publisher, institution |-> booktitle,
                                address |-> IF publisher = None THEN None ELSE <<"B", "o", "s", "t", "o", "n">>,
                                note |-> note, url |-> url, doi |-> doi])
    /\ venue = None
    /\ pc = "start"
    /\ parsed = <<>> /\ entries = <<>>
    /\ author_filter = None /\ out = None /\ first_out = None
    /\ names = <<>> /\ name_str = None /\ formatted = None

VenueHtml ==
    /\ pc = "start"
    /\ venue' = _venue_html(ventry)
    /\ pc' = "venue"
    /\ UNCHANGED <<parsed, entries, author_filter, out, first_out,
                   names, name_str, formatted, ventry>>

NextVenue == VenueHtml

SpecVenue == InitVenue /\ [][NextVenue]_vars

-----------------------------------------------------------------------------
(* Claims about rendering *)

\* The citation keys of the entries of the sections, in the order of the
\* output.
RenderedIds(sections) == join(<<>>, [s \in 1..Len(sections) |-> sections[s].ids])

Range(seq) == {seq[i] : i \in 1..Len(seq)}

\* The position of the entry with the key in the loaded list.
PositionOf(key) == CHOOSE k \in 1..Len(entries) : entries[k]["_key"] = key

\* The year an entry declares, blanks around it aside; '' when it declares
\* none.
DeclaredYear(e) == strip(get(e, "year"))

\* The text f occurs in the entry's author, or in its editor when it has no
\* author (blanks around a field aside), letter case aside.
Matches(e, f) ==
    LET author == strip(get(e, "author"))
        person == IF author # <<>> THEN author ELSE strip(get(e, "editor"))
    IN  \E i \in 0..(Len(person) - Len(f)) :
            \A k \in 1..Len(f) : lower(<<person[i + k]>>) = lower(<<f[k]>>)

\* The last call of render_bibliography returned (it raised nothing).
Returned == pc = "rendered" /\ out # ValueError

\* The entries a call with the last filter is to retain.
Retained ==
    {k \in 1..Len(entries) :
        author_filter = None \/ Matches(entries[k], author_filter)}

\* C3: the year sections are in descending numeric order of their years and
\* the undated section is the last one.
C3_YearsDescendingUndatedLast ==
    Returned =>
        /\ \A i, j \in 1..Len(out.years) :
             (i < j /\ isdigit(out.years[i]) /\ isdigit(out.years[j])) =>
                 int(out.years[i]) >= int(out.years[j])
        /\ \A i \in 1..Len(out.years) :
             out.years[i] = <<"u", "n", "d", "a", "t", "e", "d">> => i = Len(out.years)

\* C4: with a filter, exactly the entries whose author, or editor when the
\* author is absent or empty, contains the filter in any letter case are
\* rendered, each once; they are among those rendered without a filter and
\* stand in the order they have there; without a filter every entry is
\* rendered.
C4_FilterRetains ==
    pc = "rendered" =>
        LET ids    == RenderedIds(out.sections)
            all    == RenderedIds(render_bibliography(entries, None).sections)
            before(a, b) ==
                \E i, j \in 1..Len(all) : i < j /\ all[i] = a /\ all[j] = b
        IN  /\ Range(ids) = {entries[k]["_key"] : k \in Retained}
            /\ Len(ids) = Cardinality(Retained)
            /\ Range(ids) \subseteq Range(all)
            /\ Range(all) = {entries[k]["_key"] : k \in 1..Len(entries)}
            /\ \A i, j \in 1..Len(ids) : i < j => before(ids[i], ids[j])

\* C5: after any calls of render_bibliography the list the caller passed
\* holds the entries it held when loaded, each as it was, and a call ends as
\* the first call with its filter ended: it returns the string that call
\* returned, or raises what that call raised.
C5_RenderRepeatable ==
    /\ entries = parsed
    /\ pc = "rendered" =>
         /\ author_filter \in DOMAIN first_out
         /\ out = first_out[author_filter].out

\* Both filters have been used, and the last call was not the first with its
\* filter; the filter dropped an entry of the list, and the call returned
\* a section of two entries; the call with no filter raised, and was
\* repeated.
C5_Witness ==
    /\ Returned
    /\ DOMAIN first_out = RepeatFilters
    /\ author_filter # None
    /\ first_out[author_filter].again
    /\ Len(entries) = 3
    /\ \E s \in 1..Len(out.sections) : Len(out.sections[s].ids) = 2
    /\ first_out[None].out = ValueError
    /\ first_out[None].again

\* C8: the navigation index holds the numeric years of the retained entries,
\* each once; a row holds the years of one decade, the rows are in
\* descending order of their decades and the years of a row in descending
\* order; each year of the index is the label of exactly one section.
C8_NavigationIndex ==
    Returned =>
        LET rows   == out.nav
            index  == join(<<>>, rows)
            decade(y) == int(y) - (int(y) % 10)
            numeric == {y \in {year_of(entries[k]) : k \in Retained} : isdigit(y)}
        IN  /\ Range(index) = numeric
            /\ Len(index) = Cardinality(numeric)
            /\ <<"u", "n", "d", "a", "t", "e", "d">> \notin Range(index)
            /\ \A r \in 1..Len(rows) :
                 /\ rows[r] # <<>>
                 /\ \A i, j \in 1..Len(rows[r]) :
                      /\ decade(rows[r][i]) = decade(rows[r][j])
                      /\ i < j => int(rows[r][i]) >= int(rows[r][j])
            /\ \A r, q \in 1..Len(rows) :
                 r < q => decade(rows[r][1]) > decade(rows[q][1])
            /\ \A y \in Range(index) :
                 Cardinality({s \in 1..Len(out.sections) : out.sections[s].label = y}) = 1

\* An index of two rows, one of them with two years, was rendered for three
\* entries.
C8_Witness ==
    /\ Returned
    /\ author_filter = None
    /\ Len(entries) = 3
    /\ Len(out.nav) = 2
    /\ \E r \in 1..Len(out.nav) : Len(out.nav[r]) = 2

\* The sections hold the retained entries, each once; none is empty; the
\* entries of a section are in the order of the loaded list; and the label
\* of the section of an entry is what LabelFor gives for it.
Partitioned(LabelFor(_)) ==
    LET ids == RenderedIds(out.sections)
    IN  /\ Range(ids) = {entries[k]["_key"] : k \in Retained}
        /\ Len(ids) = Cardinality(Retained)
        /\ \A s \in 1..Len(out.sections) :
             LET sec == out.sections[s]
             IN  /\ sec.ids # <<>>
                 /\ \A i \in 1..Len(sec.ids) :
                      sec.label = LabelFor(entries[PositionOf(sec.ids[i])])
                 /\ \A i, j \in 1..Len(sec.ids) :
                      i < j => PositionOf(sec.ids[i]) < PositionOf(sec.ids[j])

\* C10: a call renders every retained entry once, in the section labelled
\* with its year, or Undated when it has no year; no section is empty; a
\* section keeps the order of the input.
C10_PartitionByYear ==
    pc = "rendered" =>
        /\ out # ValueError
        /\ Partitioned(LAMBDA e :
              IF DeclaredYear(e) = <<>> THEN <<"U", "n", "d", "a", "t", "e", "d">> ELSE DeclaredYear(e))

-----------------------------------------------------------------------------
(* Claims about venues *)

\* C9: in the venue of an article with a journal, the volume is shown in
\* bold exactly when the entry has a volume, and the number in parentheses
\* exactly when it has a number, whether it has the other or not.
C9_VolumeNumberIndependent ==
    (/\ pc = "venue"
     /\ get(ventry, "_type") = <<"a", "r", "t", "i", "c", "l", "e">>
     /\ _get(ventry, <<"journal">>, <<>>) # <<>>) =>
        LET volume == _get(ventry, <<"volume">>, <<>>)
            number == _get(ventry, <<"number">>, <<>>)
        IN  /\ volume # <<>> <=> contains(venue, <<"<", "b", ">">> \o <<"1", "0">> \o <<"<", "/", "b", ">">>)
            /\ number # <<>> <=> contains(venue, <<"(">> \o <<"2">> \o <<")">>)

-----------------------------------------------------------------------------
(* Claims about name formatting *)

\* The display forms of names i..Len(ns), each but the last followed by a
\* comma when the list has three names or more, the last preceded by "and".
RECURSIVE ProseList(_, _)
ProseList(ns, i) ==
    IF i > Len(ns) THEN <<>>
    ELSE IF i = Len(ns)
         THEN (IF Len(ns) > 1 THEN <<"a", "n", "d", " ">> ELSE <<>>) \o ns[i].shown
         ELSE ns[i].shown \o (IF Len(ns) >= 3 THEN <<",", " ">> ELSE <<" ">>)
                \o ProseList(ns, i + 1)

-----------------------------------------------------------------------------
(* Claims about loading *)

\* Entry c of the parsed list names entry p in its crossref.
Names(c, p) == strip(get(parsed[c], "crossref")) = parsed[p]["_key"]

\* Entry i of the parsed list names, in its crossref, a key no entry has.
Dangling(i) ==
    LET xref_key == strip(get(parsed[i], "crossref"))
    IN  xref_key # <<>> /\ \A j \in 1..Len(parsed) : parsed[j]["_key"] # xref_key

\* The parsed list with the crossref field of entry i taken out.
WithoutCrossref(ds, i) ==
    [ds EXCEPT ![i] = [f \in DOMAIN ds[i] \ {"crossref"} |-> ds[i][f]]]

\* C1: crossref inheritance is one-level: in a chain C -> P -> G of three
\* entries, in whatever order they were loaded, C holds after loading no
\* field that neither C nor P declared.
C1_OneLevelInheritance ==
    pc = "loaded" =>
        \A c, p, g \in 1..Len(parsed) :
            (c # p /\ p # g /\ c # g /\ Names(c, p) /\ Names(p, g)) =>
                DOMAIN entries[c] \subseteq DOMAIN parsed[c] \cup DOMAIN parsed[p]

\* C2: a child whose crossref names an existing parent holds, after loading,
\* the parent's value in every field but the reserved keys _type and _key
\* that the parent declared and the child lacked or declared empty; its own
\* non-empty fields and its reserved keys are as parsed.
C2_ChildTakesParentValues ==
    pc = "loaded" =>
        \A c, p \in 1..Len(parsed) :
            Names(c, p) =>
                /\ \A f \in DOMAIN parsed[p] :
                      (f \notin {"_type", "_key"} /\ get(parsed[c], f) = <<>>) =>
                          f \in DOMAIN entries[c] /\ entries[c][f] = parsed[p][f]
                /\ \A f \in DOMAIN parsed[c] :
                      parsed[c][f] # <<>> => entries[c][f] = parsed[c][f]
                /\ entries[c]["_type"] = parsed[c]["_type"]
                /\ entries[c]["_key"] = parsed[c]["_key"]

\* C7: an entry whose crossref names a key no entry has is returned exactly
\* as parsed, and every other entry is returned as it is when that entry
\* has no crossref field at all.
C7_DanglingCrossrefIgnored ==
    pc = "loaded" =>
        \A i \in 1..Len(parsed) :
            Dangling(i) =>
                /\ Len(entries) = Len(parsed)
                /\ entries[i] = parsed[i]
                /\ \A j \in 1..Len(parsed) \ {i} :
                      entries[j] = load_bibliography(WithoutCrossref(parsed, i))[j]

\* A loaded file in which an entry with a dangling crossref has a child that
\* inherited from it, beside an entry that inherited from another parent.
C7_Witness ==
    /\ pc = "loaded"
    /\ \E i, j, k \in 1..Len(parsed) :
          /\ Dangling(i) /\ j # i /\ Names(j, i) /\ entries[j] # parsed[j]
          /\ k # i /\ k # j /\ ~Names(k, i) /\ entries[k] # parsed[k]

====
